---- MODULE Spec2Model ----
(***************************************************************************)
(* Model of model_manipulation_software/prediction_system.py:              *)
(* the per-model handle (class Model) and the per-deployment registry      *)
(* (class PredictionSystem), together with the part of the file system    *)
(* they look at (the model folder, its entries and the two files of each   *)
(* entry) and the external library calls, each of which either returns or  *)
(* raises.                                                                 *)
(***************************************************************************)
EXTENDS Naturals, Sequences, FiniteSets, TLC

\* Entry names that can occur in the model folder, and the names predict is asked for.
Names == {"a", "b"}
\* device strings (prediction_system.py:91)
Devices == {"cpu", "cuda:0"}
\* Exception types an external library call may raise.
ExternalErrors == {"KeyError", "RuntimeError"}

\* How often the environment changes the model folder during one behaviour.
MaxFsChanges == 2
\* How many PredictionSystem.predict calls one behaviour holds.
MaxCalls == 3
\* How many direct method calls on a stand-alone Model one behaviour holds.
MaxModelOps == 4

VARIABLES
    folderKind,   \* what model_folder is on disk: "absent", "file" or "dir"
    entries,      \* os.listdir(model_folder), when it is a directory
    confFiles,    \* entries n with n/hyperparameters.json a regular file
    pthFiles,     \* entries n with n/model.pth a regular file
    fsChanges,    \* number of environment changes so far
    pc,           \* position of the PredictionSystem caller
    device,       \* PredictionSystem._device
    hasModels,    \* whether the attribute PredictionSystem._models exists
    models,       \* PredictionSystem._models: name -> Model
    kindAtCheck,  \* what model_folder was when os.path.isdir looked at it
    listed,       \* the names os.listdir returned to __init__
    todo,         \* names of that listing the for loop has not visited yet
    ctorErr,      \* the exception __init__ raised: <<type, name, file>>
    ctrace,       \* the calls __init__ has made, in order
    cur,          \* model_name of the current (or last) predict call
    pre,          \* _models as it was when that call started
    trace,        \* the steps that call has executed, in order
    outcome,      \* "running", "returned" or the exception type it raised
    confRead,     \* whether that call invoked sparsechem.load_results
    weightLoad,   \* whether that call invoked torch.load
    result,       \* state of the network Model.predict last ran on
    calls,        \* number of predict calls so far
    sm,           \* a stand-alone Model object (or NoModel)
    smOp,         \* the last method called on it
    smArg,        \* the argument of that call
    smExc,        \* <<type, file>> of the exception that call raised
    smSaw,        \* <<isfile(hyperparameters.json), isfile(model.pth)>> seen by Model.__init__
    smOps         \* number of direct method calls so far

fsVars == <<folderKind, entries, confFiles, pthFiles, fsChanges>>
ctorVars == <<device, hasModels, kindAtCheck, listed, todo, ctorErr, ctrace>>
callVars == <<cur, pre, trace, outcome, confRead, weightLoad, result, calls>>
smVars == <<sm, smOp, smArg, smExc, smSaw, smOps>>
progVars == <<pc, models, ctorVars, callVars>>
vars == <<fsVars, progVars, smVars>>

----------------------------------------------------------------------------
(* class Model *)

NoModel == [path |-> "none"]
NoExc == <<"none", "none">>

\* The object Model.__init__ leaves behind: neither _conf, _model nor _device is set.
NewModel(n) ==
    [path |-> n, conf |-> FALSE, net |-> "unset", device |-> "unset", netDevice |-> "unset"]

NoFault == [at |-> "none", exc |-> "none"]
FaultsAt(points) == {NoFault} \cup [at : points, exc : ExternalErrors]

\* A variant of the checks that looks for model.pth first.
Model_init_checks_pth_first(hasConfFile, hasPthFile) ==
    IF ~hasPthFile THEN <<"FileNotFoundError", "model.pth">>
    ELSE IF ~hasConfFile THEN <<"FileNotFoundError", "hyperparameters.json">>
    ELSE NoExc

\* Model.__init__'s checks, configuration file first: the exception it raises.
Model_init_checks(hasConfFile, hasPthFile) ==
    IF ~hasConfFile THEN <<"FileNotFoundError", "hyperparameters.json">>
    ELSE IF ~hasPthFile THEN <<"FileNotFoundError", "model.pth">>
    ELSE NoExc

\* What opening a file below model_folder raises: nothing when the file is there,
\* NotADirectoryError (ENOTDIR) when model_folder has become a regular file,
\* FileNotFoundError (ENOENT) when the file, its folder or model_folder is gone.
\* (The entries of model_folder are directories.)
OpenExc(kind, present) ==
    IF present THEN "none"
    ELSE IF kind = "file" THEN "NotADirectoryError"
    ELSE "FileNotFoundError"

\* A variant of the conf property that reads hyperparameters.json on every access.
Model_conf_reread(m, confOpen, fault) ==
    IF confOpen # "none" THEN [m |-> m, exc |-> confOpen, read |-> TRUE]
    ELSE IF fault.at = "load_results" THEN [m |-> m, exc |-> fault.exc, read |-> TRUE]
    ELSE [m |-> [m EXCEPT !.conf = TRUE], exc |-> "none", read |-> TRUE]

\* The conf property: read hyperparameters.json unless _conf is already set.
\* confOpen is what opening the file raises ("none" when it opens).
Model_conf(m, confOpen, fault) ==
    IF m.conf THEN [m |-> m, exc |-> "none", read |-> FALSE]
    ELSE IF confOpen # "none" THEN [m |-> m, exc |-> confOpen, read |-> TRUE]
    ELSE IF fault.at = "load_results" THEN [m |-> m, exc |-> fault.exc, read |-> TRUE]
    ELSE [m |-> [m EXCEPT !.conf = TRUE], exc |-> "none", read |-> TRUE]

\* Model.load(device): nothing when _model is set; else _device, then the network
\* built and moved to the device, then torch.load, then load_state_dict.
\* _model is assigned before the state is read, so a failure of torch.load or
\* load_state_dict leaves a "fresh" network behind (a torch Module is always truthy).
Model_load(m, dev, confOpen, pthOpen, fault) ==
    IF m.net # "unset"
    THEN [m |-> m, exc |-> "none", confRead |-> FALSE, weightLoad |-> FALSE]
    ELSE LET m1 == [m EXCEPT !.device = dev]
             c == Model_conf(m1, confOpen, fault)
             m2 == [c.m EXCEPT !.net = "fresh", !.netDevice = dev]
         IN IF c.exc # "none"
            THEN [m |-> c.m, exc |-> c.exc, confRead |-> c.read, weightLoad |-> FALSE]
            ELSE IF fault.at = "SparseFFN"
            THEN [m |-> c.m, exc |-> fault.exc, confRead |-> c.read, weightLoad |-> FALSE]
            ELSE IF pthOpen # "none"
            THEN [m |-> m2, exc |-> pthOpen, confRead |-> c.read, weightLoad |-> TRUE]
            ELSE IF fault.at \in {"torch_load", "load_state_dict"}
            THEN [m |-> m2, exc |-> fault.exc, confRead |-> c.read, weightLoad |-> TRUE]
            ELSE [m |-> [m2 EXCEPT !.net = "loaded"], exc |-> "none",
                  confRead |-> c.read, weightLoad |-> TRUE]

\* Model.predict: reads _model and _device, then sparsechem.predict.
Model_predict(m, fault) ==
    IF m.net = "unset" \/ m.device = "unset" THEN "AttributeError"
    ELSE IF fault.at = "predict" THEN fault.exc
    ELSE "none"

----------------------------------------------------------------------------
(* The file system *)

FsInit ==
    /\ folderKind \in {"absent", "file", "dir"}
    /\ entries \in SUBSET Names
    /\ confFiles \in SUBSET entries
    /\ pthFiles \in SUBSET entries
    /\ folderKind # "dir" => entries = {}
    /\ fsChanges = 0

Init ==
    /\ FsInit
    /\ pc = "start"
    /\ device = "unset"
    /\ hasModels = FALSE
    /\ models = [n \in {} |-> NewModel(n)]
    /\ kindAtCheck = "none"
    /\ listed = {}
    /\ todo = {}
    /\ ctorErr = <<"none", "none", "none">>
    /\ ctrace = <<>>
    /\ cur = "none"
    /\ pre = [n \in {} |-> NewModel(n)]
    /\ trace = <<>>
    /\ outcome = "none"
    /\ confRead = FALSE
    /\ weightLoad = FALSE
    /\ result = "none"
    /\ calls = 0
    /\ sm = NoModel
    /\ smOp = "none"
    /\ smArg = "none"
    /\ smExc = NoExc
    /\ smSaw = <<FALSE, FALSE>>
    /\ smOps = 0

\* Somebody puts a complete model folder into model_folder.
AddModelFolder(n) ==
    /\ fsChanges < MaxFsChanges
    /\ folderKind = "dir"
    /\ n \notin entries
    /\ entries' = entries \cup {n}
    /\ confFiles' = confFiles \cup {n}
    /\ pthFiles' = pthFiles \cup {n}
    /\ fsChanges' = fsChanges + 1
    /\ UNCHANGED <<folderKind, progVars, smVars>>

\* Somebody removes an entry of model_folder.
RemoveModelFolder(n) ==
    /\ fsChanges < MaxFsChanges
    /\ n \in entries
    /\ entries' = entries \ {n}
    /\ confFiles' = confFiles \ {n}
    /\ pthFiles' = pthFiles \ {n}
    /\ fsChanges' = fsChanges + 1
    /\ UNCHANGED <<folderKind, progVars, smVars>>

\* Somebody removes n/hyperparameters.json.
RemoveConfFile(n) ==
    /\ fsChanges < MaxFsChanges
    /\ n \in confFiles
    /\ confFiles' = confFiles \ {n}
    /\ fsChanges' = fsChanges + 1
    /\ UNCHANGED <<folderKind, entries, pthFiles, progVars, smVars>>

\* Somebody removes n/model.pth.
RemovePthFile(n) ==
    /\ fsChanges < MaxFsChanges
    /\ n \in pthFiles
    /\ pthFiles' = pthFiles \ {n}
    /\ fsChanges' = fsChanges + 1
    /\ UNCHANGED <<folderKind, entries, confFiles, progVars, smVars>>

\* Somebody removes model_folder, or replaces it by a regular file.
ReplaceFolder(k) ==
    /\ fsChanges < MaxFsChanges
    /\ folderKind = "dir"
    /\ folderKind' = k
    /\ entries' = {}
    /\ confFiles' = {}
    /\ pthFiles' = {}
    /\ fsChanges' = fsChanges + 1
    /\ UNCHANGED <<progVars, smVars>>

----------------------------------------------------------------------------
(* class PredictionSystem: __init__ *)

\* A variant of the directory check that asks os.path.exists instead.
IsDir_exists(kind) == kind # "absent"

\* os.path.isdir(model_folder)
IsDir(kind) == kind = "dir"

\* A variant of the registration that rebinds the dict to the one new entry.
RegistryPut_rebind(registry, n) == (n :> NewModel(n))

\* self._models[dirname] = Model(model_folder / dirname)
RegistryPut(registry, n) == (n :> NewModel(n)) @@ registry

\* __init__ up to the directory check; self._models = {} follows a passed check.
Construct(d) ==
    /\ pc = "start"
    /\ device' = d
    /\ kindAtCheck' = folderKind
    /\ ctrace' = <<"isdir">>
    /\ IF IsDir(folderKind)
       THEN /\ hasModels' = TRUE
            /\ pc' = "ctor_listdir"
            /\ UNCHANGED ctorErr
       ELSE /\ ctorErr' = <<"NotADirectoryError", "none", "none">>
            /\ pc' = "ctor_failed"
            /\ UNCHANGED hasModels
    /\ UNCHANGED <<fsVars, models, listed, todo, callVars, smVars>>

\* os.listdir(model_folder); it raises when the folder is no directory any more.
CtorListdir ==
    /\ pc = "ctor_listdir"
    /\ ctrace' = Append(ctrace, "listdir")
    /\ IF folderKind = "dir"
       THEN /\ listed' = entries
            /\ todo' = entries
            /\ pc' = "ctor_loop"
            /\ UNCHANGED ctorErr
       ELSE /\ ctorErr' = <<IF folderKind = "file" THEN "NotADirectoryError"
                            ELSE "FileNotFoundError", "none", "none">>
            /\ pc' = "ctor_failed"
            /\ UNCHANGED <<listed, todo>>
    /\ UNCHANGED <<fsVars, models, device, hasModels, kindAtCheck, callVars, smVars>>

\* One iteration of the for loop, over the listing in whatever order it came.
CtorModel(n) ==
    /\ pc = "ctor_loop"
    /\ n \in todo
    /\ ctrace' = Append(ctrace, "Model")
    /\ LET e == Model_init_checks(n \in confFiles, n \in pthFiles) IN
       IF e = NoExc
       THEN /\ models' = RegistryPut(models, n)
            /\ todo' = todo \ {n}
            /\ UNCHANGED <<pc, ctorErr>>
       ELSE /\ ctorErr' = <<e[1], n, e[2]>>
            /\ pc' = "ctor_failed"
            /\ UNCHANGED <<models, todo>>
    /\ UNCHANGED <<fsVars, device, hasModels, kindAtCheck, listed, callVars, smVars>>

\* The loop is over: __init__ returns the PredictionSystem.
CtorReturn ==
    /\ pc = "ctor_loop"
    /\ todo = {}
    /\ pc' = "idle"
    /\ UNCHANGED <<fsVars, models, ctorVars, callVars, smVars>>

----------------------------------------------------------------------------
(* class PredictionSystem: predict *)

\* self._models[model_name]: the exception the dict lookup raises.
Lookup(registry, name) ==
    IF name \in DOMAIN registry THEN "none" ELSE "KeyError"

\* A variant of _get_model without the handler: the KeyError leaves as it is.
GetModelExc_raw(registry, name) == Lookup(registry, name)

\* _get_model: the lookup's KeyError leaves as ModelUnknownError.
GetModelExc(registry, name) ==
    IF Lookup(registry, name) = "KeyError" THEN "ModelUnknownError" ELSE "none"

\* The order in which predict calls its steps.
StepOrder == <<"get_model", "read_input", "prepare", "fold", "build", "load", "infer">>

Raise(e) ==
    /\ outcome' = e
    /\ pc' = "idle"

\* predict(model_name, smiles) is called: model = self._get_model(model_name)
PredictCall(name) ==
    /\ pc = "idle"
    /\ calls < MaxCalls
    /\ calls' = calls + 1
    /\ cur' = name
    /\ pre' = models
    /\ trace' = <<"get_model">>
    /\ confRead' = FALSE
    /\ weightLoad' = FALSE
    /\ LET e == GetModelExc(models, name) IN
       IF e # "none" THEN Raise(e)
       ELSE outcome' = "running" /\ pc' = "read_input"
    /\ UNCHANGED <<fsVars, models, ctorVars, result, smVars>>

\* df = melloddy_tuner.utils.helper.read_input_file(str(smiles))
ReadInput ==
    /\ pc = "read_input"
    /\ trace' = Append(trace, "read_input")
    /\ \E fault \in FaultsAt({"read_input_file"}) :
          IF fault.at # "none" THEN Raise(fault.exc)
          ELSE pc' = "prepare" /\ UNCHANGED outcome
    /\ UNCHANGED <<fsVars, models, ctorVars, cur, pre, confRead, weightLoad, result, calls, smVars>>

\* data = melloddy_tuner.tunercli.do_prepare_prediction_online(args, df)
Prepare ==
    /\ pc = "prepare"
    /\ trace' = Append(trace, "prepare")
    /\ \E fault \in FaultsAt({"do_prepare_prediction_online"}) :
          IF fault.at # "none" THEN Raise(fault.exc)
          ELSE pc' = "fold" /\ UNCHANGED outcome
    /\ UNCHANGED <<fsVars, models, ctorVars, cur, pre, confRead, weightLoad, result, calls, smVars>>

\* model.fold_inputs and model.input_transform (the conf property), then
\* sparsechem.fold_transform_inputs
Fold ==
    /\ pc = "fold"
    /\ trace' = Append(trace, "fold")
    /\ \E fault \in FaultsAt({"load_results", "fold_transform_inputs"}) :
          LET c == Model_conf(models[cur], OpenExc(folderKind, cur \in confFiles), fault) IN
          /\ models' = [models EXCEPT ![cur] = c.m]
          /\ confRead' = c.read
          /\ IF c.exc # "none" THEN Raise(c.exc)
             ELSE IF fault.at = "fold_transform_inputs" THEN Raise(fault.exc)
             ELSE pc' = "build" /\ UNCHANGED outcome
    /\ UNCHANGED <<fsVars, ctorVars, cur, pre, weightLoad, result, calls, smVars>>

\* y_class, y_regr (the conf property again, set by now), the dataset and the loader
Build ==
    /\ pc = "build"
    /\ trace' = Append(trace, "build")
    /\ \E fault \in FaultsAt({"load_check_sparse"}) :
          LET c == Model_conf(models[cur], OpenExc(folderKind, cur \in confFiles), fault) IN
          /\ models' = [models EXCEPT ![cur] = c.m]
          /\ confRead' = (confRead \/ c.read)
          /\ IF c.exc # "none" THEN Raise(c.exc)
             ELSE IF fault.at = "load_check_sparse" THEN Raise(fault.exc)
             ELSE pc' = "load" /\ UNCHANGED outcome
    /\ UNCHANGED <<fsVars, ctorVars, cur, pre, weightLoad, result, calls, smVars>>

\* model.load(self._device)
Load ==
    /\ pc = "load"
    /\ trace' = Append(trace, "load")
    /\ \E fault \in FaultsAt({"SparseFFN", "torch_load", "load_state_dict"}) :
          LET r == Model_load(models[cur], device, OpenExc(folderKind, cur \in confFiles),
                                OpenExc(folderKind, cur \in pthFiles), fault) IN
          /\ models' = [models EXCEPT ![cur] = r.m]
          /\ confRead' = (confRead \/ r.confRead)
          /\ weightLoad' = r.weightLoad
          /\ IF r.exc # "none" THEN Raise(r.exc)
             ELSE pc' = "infer" /\ UNCHANGED outcome
    /\ UNCHANGED <<fsVars, ctorVars, cur, pre, result, calls, smVars>>

\* return model.predict(loader)
Infer ==
    /\ pc = "infer"
    /\ trace' = Append(trace, "infer")
    /\ \E fault \in FaultsAt({"predict"}) :
          LET e == Model_predict(models[cur], fault) IN
          IF e # "none" THEN Raise(e) /\ UNCHANGED result
          ELSE /\ outcome' = "returned"
               /\ result' = models[cur].net
               /\ pc' = "idle"
    /\ UNCHANGED <<fsVars, models, ctorVars, cur, pre, confRead, weightLoad, calls, smVars>>

Next ==
    \/ \E n \in Names : AddModelFolder(n)
    \/ \E n \in Names : RemoveModelFolder(n)
    \/ \E n \in Names : RemoveConfFile(n)
    \/ \E n \in Names : RemovePthFile(n)
    \/ \E k \in {"absent", "file"} : ReplaceFolder(k)
    \/ \E d \in Devices : Construct(d)
    \/ CtorListdir
    \/ \E n \in Names : CtorModel(n)
    \/ CtorReturn
    \/ \E name \in Names : PredictCall(name)
    \/ ReadInput
    \/ Prepare
    \/ Fold
    \/ Build
    \/ Load
    \/ Infer

Spec == Init /\ [][Next]_vars

----------------------------------------------------------------------------
(* A Model used on its own *)

\* Model(model_folder / n)
ModelNew(n) ==
    /\ smOps < MaxModelOps
    /\ smOps' = smOps + 1
    /\ smOp' = "init"
    /\ smArg' = n
    /\ smSaw' = <<n \in confFiles, n \in pthFiles>>
    /\ LET e == Model_init_checks(n \in confFiles, n \in pthFiles) IN
       /\ smExc' = e
       /\ sm' = IF e = NoExc THEN NewModel(n) ELSE NoModel
    /\ UNCHANGED <<fsVars, progVars>>

\* m.conf
ModelConf ==
    /\ smOps < MaxModelOps
    /\ sm.path # "none"
    /\ smOps' = smOps + 1
    /\ smOp' = "conf"
    /\ smArg' = "none"
    /\ \E fault \in FaultsAt({"load_results"}) :
          LET c == Model_conf(sm, OpenExc(folderKind, sm.path \in confFiles), fault) IN
          /\ sm' = c.m
          /\ smExc' = <<c.exc, "none">>
    /\ UNCHANGED <<smSaw, fsVars, progVars>>

\* m.load(d)
ModelLoad(d) ==
    /\ smOps < MaxModelOps
    /\ sm.path # "none"
    /\ smOps' = smOps + 1
    /\ smOp' = "load"
    /\ smArg' = d
    /\ \E fault \in FaultsAt({"load_results", "SparseFFN", "torch_load", "load_state_dict"}) :
          LET r == Model_load(sm, d, OpenExc(folderKind, sm.path \in confFiles),
                                OpenExc(folderKind, sm.path \in pthFiles), fault) IN
          /\ sm' = r.m
          /\ smExc' = <<r.exc, "none">>
    /\ UNCHANGED <<smSaw, fsVars, progVars>>

\* m.predict(data)
ModelPredict ==
    /\ smOps < MaxModelOps
    /\ sm.path # "none"
    /\ smOps' = smOps + 1
    /\ smOp' = "predict"
    /\ smArg' = "none"
    /\ \E fault \in FaultsAt({"predict"}) :
          smExc' = <<Model_predict(sm, fault), "none">>
    /\ UNCHANGED <<sm, smSaw, fsVars, progVars>>

ModelNext ==
    \/ \E n \in Names : AddModelFolder(n)
    \/ \E n \in Names : RemoveModelFolder(n)
    \/ \E n \in Names : RemoveConfFile(n)
    \/ \E n \in Names : RemovePthFile(n)
    \/ \E k \in {"absent", "file"} : ReplaceFolder(k)
    \/ \E n \in Names : ModelNew(n)
    \/ ModelConf
    \/ \E d \in Devices : ModelLoad(d)
    \/ ModelPredict

ModelSpec == Init /\ [][ModelNext]_vars

----------------------------------------------------------------------------
(* Properties *)

Constructed == pc \notin {"start", "ctor_listdir", "ctor_loop", "ctor_failed"}
Failed == outcome \notin {"none", "running", "returned"}
Range(seq) == {seq[i] : i \in 1..Len(seq)}
IsPrefix(seq, full) == Len(seq) <= Len(full) /\ \A i \in 1..Len(seq) : seq[i] = full[i]

\* C1: predict with a model_name that is no key of the registry raises
\* ModelUnknownError, never the raw KeyError, with the lookup the only step executed:
\* no input read, no preparation, no configuration read, no weight load, and the
\* registry and every model's state as they were before the call. No other failure
\* of predict surfaces as ModelUnknownError: what a later step raises leaves as raised.
UnknownModelRaisesFirst ==
    (Constructed /\ calls > 0) =>
        /\ cur \notin DOMAIN pre =>
              /\ outcome = "ModelUnknownError"
              /\ pc = "idle"
              /\ trace = <<"get_model">>
              /\ ~confRead /\ ~weightLoad
              /\ models = pre
        /\ outcome = "ModelUnknownError" => cur \notin DOMAIN pre
        /\ (Failed /\ Len(trace) > 1) =>
              outcome \in ExternalErrors \cup {"FileNotFoundError", "NotADirectoryError", "AttributeError"}

\* A lookup miss on a system that holds a loaded model, which stays loaded.
UnknownModelWitness ==
    /\ Constructed
    /\ outcome = "ModelUnknownError"
    /\ \E n \in DOMAIN models : models[n].net = "loaded" /\ pre[n].net = "loaded"

\* C2: once construction has succeeded the registry's keys are exactly the names
\* os.listdir returned to __init__, each bound to the Model of that path; a predict
\* call's lookup succeeds exactly for those names; and no predict call, nor any change
\* of the folder afterwards, adds, removes or rebinds an entry.
RegistryIsListing ==
    Constructed =>
        /\ DOMAIN models = listed
        /\ \A n \in listed : models[n].path = n
        /\ calls > 0 =>
              /\ DOMAIN pre = listed
              /\ (outcome # "ModelUnknownError") <=> (cur \in listed)

\* After the folder changed: a name added later does not resolve, and a model whose
\* folder was removed later is still in the registry.
RegistryWitness ==
    /\ Constructed
    /\ calls > 1
    /\ outcome = "ModelUnknownError"
    /\ cur \in entries
    /\ \E n \in listed : n \notin entries

\* C3: when model_folder is not a directory at the constructor's check, the
\* constructor raises NotADirectoryError having called nothing but os.path.isdir:
\* no listing, no Model, and no _models attribute.
NotADirectoryRaisesFirst ==
    (pc # "start" /\ kindAtCheck # "dir") =>
        /\ pc = "ctor_failed"
        /\ ctorErr = <<"NotADirectoryError", "none", "none">>
        /\ ctrace = <<"isdir">>
        /\ ~hasModels
        /\ DOMAIN models = {}
        /\ listed = {}

\* The constructor was given a path that exists and is a regular file.
NotADirectoryWitness ==
    /\ pc = "ctor_failed"
    /\ kindAtCheck = "file"
    /\ ctorErr[1] = "NotADirectoryError"

\* C4: Model(path) raises FileNotFoundError for hyperparameters.json when that file
\* is missing (also when model.pth is missing too), FileNotFoundError for model.pth
\* when only that one is missing, and succeeds exactly when both exist, leaving a
\* Model whose configuration is unread and whose weights are not loaded.
ModelInitChecksFiles ==
    smOp = "init" =>
        /\ ~smSaw[1] => smExc = <<"FileNotFoundError", "hyperparameters.json">>
        /\ (smSaw[1] /\ ~smSaw[2]) => smExc = <<"FileNotFoundError", "model.pth">>
        /\ (smSaw[1] /\ smSaw[2]) <=> smExc = NoExc
        /\ smExc = NoExc <=> sm.path = smArg
        /\ smExc = NoExc => sm = NewModel(smArg)
        /\ smExc # NoExc => sm = NoModel

\* Model(path) on a folder that holds model.pth but no hyperparameters.json, and on
\* the way there one that holds neither.
ModelInitWitness ==
    /\ smOp = "init"
    /\ smSaw = <<FALSE, FALSE>>
    /\ smArg \in entries
    /\ smExc = <<"FileNotFoundError", "hyperparameters.json">>

\* C5: after load(d) returns, the model's network is on device d and Model.predict
\* runs on device d.
LoadPutsModelOnDevice ==
    (smOp = "load" /\ smExc = NoExc) =>
        /\ sm.netDevice = smArg
        /\ sm.device = smArg

\* C6 as stated: nothing a predict call read or loaded stays in the Model objects
\* between calls, and every predict call that returns has read the configuration and
\* loaded the weights itself.
NothingRetained ==
    (Constructed /\ calls > 0) =>
        /\ pc = "idle" => \A n \in DOMAIN models : ~models[n].conf /\ models[n].net = "unset"
        /\ outcome = "returned" => confRead /\ weightLoad

\* C6 as amended: the Model objects retain what predict calls read and built, and
\* never drop it: a configuration once read stays, a network once built stays as it
\* is; a predict call reads hyperparameters.json exactly when it reaches the folding
\* step on a model without a configuration, and calls torch.load only on a model
\* without a network.
RetainedAndReused ==
    (Constructed /\ calls > 0) =>
        /\ \A n \in DOMAIN pre :
              /\ pre[n].conf => models[n].conf
              /\ pre[n].net # "unset" => models[n] = pre[n]
        /\ (cur \in DOMAIN pre /\ "fold" \in Range(trace)) => (confRead <=> ~pre[cur].conf)
        /\ (cur \in DOMAIN pre /\ weightLoad) => pre[cur].net = "unset"
        /\ (cur \in DOMAIN pre /\ pc = "infer" /\ pre[cur].net = "unset") => weightLoad

\* A second call on a model returned without reading or loading anything.
RetainedWitness ==
    /\ Constructed
    /\ calls > 1
    /\ outcome = "returned"
    /\ ~confRead /\ ~weightLoad
    /\ pre[cur].conf /\ pre[cur].net = "loaded"

\* The order of the steps of a predict call, and what a failure leaves behind.
PredictStepOrder ==
    (Constructed /\ calls > 0) =>
        /\ IsPrefix(trace, StepOrder)
        /\ outcome = "returned" => trace = StepOrder
        /\ Failed => pc = "idle"
        /\ (Failed /\ Len(trace) <= 3) => models = pre

\* C7: a predict call executes a prefix of resolve, read, prepare, fold, build, load,
\* infer, in that order; a failure ends the call there; a failure in the first three
\* steps leaves every model as it was; and Model.predict is only ever invoked on a
\* model whose weights have been loaded.
PredictFixedOrder ==
    /\ PredictStepOrder
    /\ (Constructed /\ "infer" \in Range(trace)) => models[cur].net = "loaded"

====
